---- MODULE Spec2Model ----
(***************************************************************************)
(* A model of the Deliverect import pipeline of tu_data_master:           *)
(*   src/deliverect/01_import_deliverect.py                                *)
(*   src/functions/shared_functions.py                                     *)
(*                                                                         *)
(* A DataFrame is a sequence of records (one record per row, in row        *)
(* order), each carrying its index label in the field idx.  A string is a  *)
(* sequence of one-character strings, so that the string operations of     *)
(* the code (title-casing, substring search, splitting, concatenation,     *)
(* lexicographic comparison) are computed character by character.  A null  *)
(* (NaN) value is the one-element sequence NaN.  Money is counted in       *)
(* units of 1/10000 of the currency, so that the 0.001 tolerance is 10     *)
(* units; timestamps are hours since 2023-01-01 00:00 UTC.                 *)
(*                                                                         *)
(* Columns the pipeline only carries along (Channel, DeliveryType,         *)
(* PaymentType, Tip, ProductName, ...) are left out of the rows, except    *)
(* ProductPLU, which tells the line items of one order apart.              *)
(***************************************************************************)
EXTENDS Integers, Sequences, FiniteSets, TLC

VARIABLES
    pc,               \* position in the running top-level function
    caller,           \* "orders": load_deliverect_order_data runs on its own;
                      \* "items": it runs inside load_deliverect_item_level_detail_data
    order_files,      \* rows of the 'Orders' CSV files, in directory-listing order
    item_files,       \* rows of the 'Order Level Pricing' CSV files, likewise
    orders_df,        \* df of load_deliverect_order_data
    df,               \* df of load_deliverect_item_level_detail_data
    consolidated_df,  \* consolidated_df of load_deliverect_item_level_detail_data
    new_records       \* new_records of load_deliverect_item_level_detail_data

vars == <<pc, caller, order_files, item_files, orders_df, df, consolidated_df, new_records>>

----------------------------------------------------------------------------
(* Strings *)

NaN == <<"NaN">>

IsNull(x) == x = NaN

\* The characters of the model in code-point order.
Ascii ==
    <<" ", "#", "&", ",", "-", "0", "1", "2", "3", "4", "5", "6", "7", "8", "9",
      "A", "B", "C", "D", "E", "F", "G", "H", "I", "J", "K", "L", "M",
      "N", "O", "P", "Q", "R", "S", "T", "U", "V", "W", "X", "Y", "Z", "_",
      "a", "b", "c", "d", "e", "f", "g", "h", "i", "j", "k", "l", "m",
      "n", "o", "p", "q", "r", "s", "t", "u", "v", "w", "x", "y", "z",
      "ouml", "uuml">>

CharSet == {Ascii[i] : i \in 1..Len(Ascii)}

Code == [c \in CharSet |-> CHOOSE i \in 1..Len(Ascii) : Ascii[i] = c]

FirstUpper == Code["A"]
FirstLower == Code["a"]

IsUpper(c) == Code[c] >= FirstUpper /\ Code[c] < FirstUpper + 26
IsLower(c) == Code[c] >= FirstLower /\ Code[c] < FirstLower + 26
IsCased(c) == IsUpper(c) \/ IsLower(c)

ToLower(c) == IF IsUpper(c) THEN Ascii[Code[c] - FirstUpper + FirstLower] ELSE c
ToUpper(c) == IF IsLower(c) THEN Ascii[Code[c] - FirstLower + FirstUpper] ELSE c

LowerStr(s) == [i \in 1..Len(s) |-> ToLower(s[i])]

\* str.title(): a cased character is upper-cased after an uncased one (or at
\* the start) and lower-cased after a cased one.
Title(s) ==
    [i \in 1..Len(s) |->
        IF i = 1 \/ ~IsCased(s[i - 1]) THEN ToUpper(s[i]) ELSE ToLower(s[i])]

\* str.replace(old, new) for a one-character old.
ReplaceChar(s, old, new) == [i \in 1..Len(s) |-> IF s[i] = old THEN new ELSE s[i]]

\* str.contains(pat, case=False) for a literal lower-case pat.
ContainsNoCase(s, pat) ==
    \E i \in 1..(Len(s) - Len(pat) + 1) :
        SubSeq(LowerStr(s), i, i + Len(pat) - 1) = pat

HasChar(s, c) == \E i \in 1..Len(s) : s[i] = c

\* str.split(',')[0]
BeforeFirstComma(s) ==
    IF HasChar(s, ",")
    THEN SubSeq(s, 1, (CHOOSE i \in 1..Len(s) :
                          s[i] = "," /\ \A j \in 1..(i - 1) : s[j] # ",") - 1)
    ELSE s

\* a < b for strings, by code point; a null sorts after every string
\* (na_position='last') and two nulls are not ordered.
StrLess(a, b) ==
    IF IsNull(a) THEN FALSE
    ELSE IF IsNull(b) THEN TRUE
    ELSE \E i \in 1..(Len(b)) :
            /\ i <= Len(a) + 1
            /\ \A j \in 1..(i - 1) : a[j] = b[j]
            /\ (i = Len(a) + 1 \/ Code[a[i]] < Code[b[i]])

\* '+' of a string column: a null operand makes the result null.
Concat(a, b) == IF IsNull(a) \/ IsNull(b) THEN NaN ELSE a \o b

----------------------------------------------------------------------------
(* DataFrames *)

Range(s) == {s[i] : i \in 1..Len(s)}

\* The rows of s at the positions in kept, in row order.
RowsAt(s, kept) ==
    LET nth(k) == CHOOSE i \in kept : Cardinality({j \in kept : j <= i}) = k
    IN  [k \in 1..Cardinality(kept) |-> s[nth(k)]]

\* A stable sort of s, where less holds the pairs <<i, j>> of positions with
\* row i less than row j: rows that less does not order keep their relative
\* order.  The place of row i is after the rows that are less and after the
\* earlier rows that are not greater.
StableSort(s, less) ==
    LET place(i) ==
            1 + Cardinality({j \in 1..Len(s) :
                    <<j, i>> \in less \/ (j < i /\ <<i, j>> \notin less)})
    IN  [p \in 1..Len(s) |-> s[CHOOSE i \in 1..Len(s) : place(i) = p]]

Positions(s) == (1..Len(s)) \X (1..Len(s))

\* reset_index(drop=True), and the RangeIndex of pd.concat(ignore_index=True)
\* and of pd.merge: the index label of a row is its position, from 0.
ResetIndex(s) == [i \in 1..Len(s) |-> [s[i] EXCEPT !.idx = i - 1]]

----------------------------------------------------------------------------
(* process_deliverect_shared_data *)

\* Europe/Berlin is one hour ahead of UTC in January 2023, the month the
\* timestamps of the model lie in.
BerlinOffset == 1

HoursPerDay == 24

TzConvert(utc) == utc + BerlinOffset

DateOf(t) == t \div HoursPerDay
TimeOf(t) == t % HoursPerDay

Digit(n) == Ascii[Code["0"] + n]

\* str() of a date: ISO format; day 0 is 2023-01-01.
DateStr(d) ==
    <<"2", "0", "2", "3", "-", "0", "1", "-">> \o <<Digit((d + 1) \div 10), Digit((d + 1) % 10)>>

\* astype(str) of the OrderID column: a null becomes the text 'nan'.
AsTypeStr(x) == IF IsNull(x) THEN <<"n", "a", "n">> ELSE x

\* 'Full Rx List, with Cleaned Names.csv': raw location name -> cleaned name.
cleaned_names ==
    { [Location |-> <<"M", "i", "t", "t", "e">>,      CleanedName |-> <<"M", "i", "t", "t", "e">>],
      [Location |-> <<"B", "e", "a", "s", "t", " ", "K", "o", "l", "n">>, CleanedName |-> <<"K", "o", "l", "n">>] }

\* The left merge on Location, then Location := Cleaned Name: a location
\* the table does not list becomes null.
clean_location_names(loc) ==
    LET raw == ReplaceChar(ReplaceChar(loc, "ouml", "o"), "uuml", "u")
        hits == {c \in cleaned_names : c.Location = raw}
    IN  IF hits = {} THEN NaN ELSE (CHOOSE c \in hits : TRUE).CleanedName

\* Lines 28-35: the brand before the first comma; a null brand is inferred
\* from the location; then every brand collapses to 'Birria' or 'Birdie'.
PrimaryBrand(b) == IF ~IsNull(b) /\ HasChar(b, ",") THEN BeforeFirstComma(b) ELSE b

InferBrand(b, loc) ==
    IF IsNull(b)
    THEN IF ContainsNoCase(loc, <<"b", "e", "a", "s", "t">>) THEN <<"B", "i", "r", "r", "i", "a", " ", "&", " ", "t", "h", "e", " ", "B", "e", "a", "s", "t">> ELSE <<"B", "i", "r", "d", "i", "e", " ", "B", "i", "r", "d", "i", "e">>
    ELSE b

\* A variant of CollapseBrand that searches case-sensitively.
CollapseBrandCaseSensitive(b) ==
    IF \E i \in 1..(Len(b) - 4) : SubSeq(b, i, i + 4) = <<"b", "e", "a", "s", "t">>
    THEN <<"B", "i", "r", "r", "i", "a">> ELSE <<"B", "i", "r", "d", "i", "e">>

CollapseBrand(b) == IF ContainsNoCase(b, <<"b", "e", "a", "s", "t">>) THEN <<"B", "i", "r", "r", "i", "a">> ELSE <<"B", "i", "r", "d", "i", "e">>

CleanBrand(b, loc) == CollapseBrand(InferBrand(PrimaryBrand(b), loc))

\* str.replace('_', ' ').str.title()
CleanStatus(st) == Title(ReplaceChar(st, "_", " "))

PrimaryKeyOf(orderID, location, date) ==
    Concat(Concat(Concat(Concat(orderID, <<" ", "-", " ">>), location), <<" ", "-", " ">>), DateStr(date))

SharedRow(r) ==
    LET local    == TzConvert(r.OrderPlacedDateTime)
        orderID  == <<"#">> \o AsTypeStr(r.OrderID)
        location == clean_location_names(r.Location)
    IN  [ OrderPlacedDate |-> DateOf(local),
          OrderPlacedTime |-> TimeOf(local),
          PrimaryKey      |-> PrimaryKeyOf(orderID, location, DateOf(local)) ]
        @@ [r EXCEPT !.OrderID = orderID,
                     !.OrderPlacedDateTime = local,
                     !.Brand = CleanBrand(r.Brand, r.Location),
                     !.Location = location,
                     !.OrderStatus = CleanStatus(r.OrderStatus)]

process_deliverect_shared_data(frame) ==
    LET rows == [i \in 1..Len(frame) |-> SharedRow(frame[i])]
    IN  SelectSeq(rows, LAMBDA r : r.OrderStatus # <<"D", "u", "p", "l", "i", "c", "a", "t", "e">>)

----------------------------------------------------------------------------
(* process_deliverect_remove_duplicates *)

\* A variant of custom_order that lists 'Failed' before 'Canceled'.
custom_order_failed_first ==
    << <<"D", "e", "l", "i", "v", "e", "r", "e", "d">>, <<"A", "u", "t", "o", " ", "F", "i", "n", "a", "l", "i", "z", "e", "d">>, <<"I", "n", " ", "D", "e", "l", "i", "v", "e", "r", "y">>, <<"R", "e", "a", "d", "y", " ", "F", "o", "r", " ", "P", "i", "c", "k", "u", "p">>,
       <<"P", "r", "e", "p", "a", "r", "e", "d">>, <<"P", "r", "e", "p", "a", "r", "i", "n", "g">>, <<"A", "c", "c", "e", "p", "t", "e", "d">>, <<"D", "e", "l", "i", "v", "e", "r", "e", "c", "t", " ", "P", "a", "r", "s", "e", "d">>, <<"N", "e", "w">>,
       <<"S", "c", "h", "e", "d", "u", "l", "e", "d">>, <<"C", "a", "n", "c", "e", "l">>, <<"F", "a", "i", "l", "e", "d">>, <<"F", "a", "i", "l", "e", "d", " ", "R", "e", "s", "o", "l", "v", "e", "d">>, <<"C", "a", "n", "c", "e", "l", "e", "d">>,
       <<"D", "e", "l", "i", "v", "e", "r", "y", " ", "C", "a", "n", "c", "e", "l", "l", "e", "d">>, <<"M", "a", "n", "u", "a", "l", " ", "R", "e", "t", "r", "y">>, <<"F", "a", "i", "l", "e", "d", " ", "C", "a", "n", "c", "e", "l">> >>

custom_order ==
    << <<"D", "e", "l", "i", "v", "e", "r", "e", "d">>, <<"A", "u", "t", "o", " ", "F", "i", "n", "a", "l", "i", "z", "e", "d">>, <<"I", "n", " ", "D", "e", "l", "i", "v", "e", "r", "y">>, <<"R", "e", "a", "d", "y", " ", "F", "o", "r", " ", "P", "i", "c", "k", "u", "p">>,
       <<"P", "r", "e", "p", "a", "r", "e", "d">>, <<"P", "r", "e", "p", "a", "r", "i", "n", "g">>, <<"A", "c", "c", "e", "p", "t", "e", "d">>, <<"D", "e", "l", "i", "v", "e", "r", "e", "c", "t", " ", "P", "a", "r", "s", "e", "d">>, <<"N", "e", "w">>,
       <<"S", "c", "h", "e", "d", "u", "l", "e", "d">>, <<"C", "a", "n", "c", "e", "l">>, <<"C", "a", "n", "c", "e", "l", "e", "d">>, <<"F", "a", "i", "l", "e", "d", " ", "R", "e", "s", "o", "l", "v", "e", "d">>, <<"F", "a", "i", "l", "e", "d">>,
       <<"D", "e", "l", "i", "v", "e", "r", "y", " ", "C", "a", "n", "c", "e", "l", "l", "e", "d">>, <<"M", "a", "n", "u", "a", "l", " ", "R", "e", "t", "r", "y">>, <<"F", "a", "i", "l", "e", "d", " ", "C", "a", "n", "c", "e", "l">> >>

\* pd.Categorical(..., categories=custom_order.keys(), ordered=True): a value
\* that is no category becomes null.
Categorical(st) == IF st \in Range(custom_order) THEN st ELSE NaN

CategoryCode(st) == CHOOSE i \in 1..Len(custom_order) : custom_order[i] = st

\* A variant of StatusLess for a descending sort of the status column.
StatusLessDescending(a, b) ==
    IF IsNull(a) THEN FALSE
    ELSE IF IsNull(b) THEN TRUE
    ELSE CategoryCode(a) > CategoryCode(b)

\* The order of the categorical column; nulls sort last.
StatusLess(a, b) ==
    IF IsNull(a) THEN FALSE
    ELSE IF IsNull(b) THEN TRUE
    ELSE CategoryCode(a) < CategoryCode(b)

\* sort_values(by=['PrimaryKey', 'OrderStatus'], ascending=[True, True])
DedupLess(a, b) ==
    \/ StrLess(a.PrimaryKey, b.PrimaryKey)
    \/ a.PrimaryKey = b.PrimaryKey /\ StatusLess(a.OrderStatus, b.OrderStatus)

\* A variant of DropDuplicates with subset=['PrimaryKey', 'OrderStatus'].
DropDuplicatesPerStatus(s) ==
    RowsAt(s, {i \in 1..Len(s) : \A j \in 1..(i - 1) :
        s[j].PrimaryKey # s[i].PrimaryKey \/ s[j].OrderStatus # s[i].OrderStatus})

\* drop_duplicates(subset='PrimaryKey', keep='first'); null keys are equal.
DropDuplicates(s) ==
    RowsAt(s, {i \in 1..Len(s) : \A j \in 1..(i - 1) : s[j].PrimaryKey # s[i].PrimaryKey})

process_deliverect_remove_duplicates(frame) ==
    LET cat    == [i \in 1..Len(frame) |->
                      [frame[i] EXCEPT !.OrderStatus = Categorical(@)]]
        sorted == StableSort(cat, {q \in Positions(cat) : DedupLess(cat[q[1]], cat[q[2]])})
        first  == DropDuplicates(sorted)
    IN  SelectSeq(first, LAMBDA r : r.OrderID # <<"#", "n", "a", "n">>)

----------------------------------------------------------------------------
(* clean_deliverect_product_name *)

\* str.replace(old, new) for literal strings, leftmost matches first.
RECURSIVE ReplaceAll(_, _, _)
ReplaceAll(s, old, new) ==
    IF Len(s) < Len(old) THEN s
    ELSE IF SubSeq(s, 1, Len(old)) = old
         THEN new \o ReplaceAll(SubSeq(s, Len(old) + 1, Len(s)), old, new)
         ELSE <<s[1]>> \o ReplaceAll(SubSeq(s, 2, Len(s)), old, new)

\* x.encode('latin-1', errors='ignore').decode('utf-8', errors='ignore'):
\* an ASCII character is kept; o-umlaut and u-umlaut become the single bytes
\* F6 and FC, which are no UTF-8 sequence next to ASCII text, and are dropped.
RepairEncoding(s) == SelectSeq(s, LAMBDA c : c \notin {"ouml", "uuml"})

clean_deliverect_product_name(name) ==
    LET n0  == IF IsNull(name) THEN <<>> ELSE name
        n1  == RepairEncoding(n0)
        n2  == ReplaceAll(n1, <<"S", "t", "c", "k">>, <<"S", "t", "a", "c", "k">>)
        n3  == ReplaceAll(n2, <<"K", "s", "e">>, <<"C", "h", "e", "e", "s", "e">>)
        n4  == ReplaceAll(n3, <<"H", "O", "T", " ", "H", "O", "T", " ", "H", "O", "T">>, <<"H", "o", "t">>)
        n5  == ReplaceAll(n4, <<" ", "H", "o", "t", " ", "H", "o", "t", " ", "H", "o", "t">>, <<"H", "o", "t">>)
        n6  == ReplaceAll(n5, <<"M", "a", "y", "o", "n", "n", "a", "i", "s", "e", ",", " ", "1", "7", "m", "l">>, <<"M", "a", "y", "o", "n", "n", "a", "i", "s", "e", " ", "1", "7", "m", "l">>)
        n7  == ReplaceAll(n6, <<"M", "a", "y", "o", ",", " ", "5", "0", "m", "l">>, <<"M", "a", "y", "o", " ", "5", "0", "m", "l">>)
        n8  == ReplaceAll(n7, <<"S", "a", "u", "c", "e", ",", " ", "5", "0", "m", "l">>, <<"S", "a", "u", "c", "e", " ", "5", "0", "m", "l">>)
        n9  == ReplaceAll(n8, <<"C", "o", "l", "a", " ", "0", ",", "5", "l">>, <<"C", "o", "l", "a", " ", "0", ".", "5", "l">>)
        n10 == ReplaceAll(n9, <<"S", "a", "l", "s", "a", ",", " ", "3", "0", "m", "l">>, <<"S", "a", "l", "s", "a", " ", "3", "0", "m", "l">>)
    IN  ReplaceAll(n10, <<"I", "t", "a", "l", "i", "e", "n", ",">>, <<"I", "t", "a", "l", "i", "e", "n">>)

CleanProductNames(frame) ==
    [i \in 1..Len(frame) |->
        [frame[i] EXCEPT !.ProductName = clean_deliverect_product_name(@)]]

----------------------------------------------------------------------------
(* load_deliverect_order_data *)

\* Lines 102-139: the files stacked in listing order, the columns selected
\* and renamed.
StackOrders(files) ==
    [i \in 1..Len(files) |->
        [ idx                            |-> i - 1,
          OrderPlacedDateTime            |-> files[i].PickupTimeUTC,
          CourierDepartureFromRxDateTime |-> files[i].CreatedTimeUTC,
          Location                       |-> files[i].Location,
          OrderID                        |-> files[i].OrderID,
          OrderStatus                    |-> files[i].Status,
          GrossAOV                       |-> files[i].SubTotal,
          Brand                          |-> files[i].Brands,
          ProductName                    |-> files[i].ProductNames ]]

\* Lines 146-182: the courier departure time, the output columns, the index.
FinishOrders(frame) ==
    ResetIndex(
        [i \in 1..Len(frame) |->
            [ idx                        |-> frame[i].idx,
              PrimaryKey                 |-> frame[i].PrimaryKey,
              OrderID                    |-> frame[i].OrderID,
              Location                   |-> frame[i].Location,
              Brand                      |-> frame[i].Brand,
              OrderPlacedDate            |-> frame[i].OrderPlacedDate,
              OrderPlacedTime            |-> frame[i].OrderPlacedTime,
              OrderStatus                |-> frame[i].OrderStatus,
              GrossAOV                   |-> frame[i].GrossAOV,
              CourierDepartureFromRxTime |->
                  TimeOf(TzConvert(frame[i].CourierDepartureFromRxDateTime)),
              ProductName                |-> frame[i].ProductName ]])

load_deliverect_order_data(files) ==
    FinishOrders(
        process_deliverect_remove_duplicates(
            CleanProductNames(
                process_deliverect_shared_data(StackOrders(files)))))

----------------------------------------------------------------------------
(* load_deliverect_item_level_detail_data *)

\* Money: 1 unit of the model is 1/Scale of the currency.
Scale == 100 * 100

\* The tolerance 0.001 of the reconciliation check, in units.
Tolerance == Scale \div 1000

Abs(x) == IF x < 0 THEN -x ELSE x

\* Lines 198-232.
StackItems(files) ==
    [i \in 1..Len(files) |->
        [ idx                 |-> i - 1,
          OrderPlacedDateTime |-> files[i].CreatedTimeUTC,
          Location            |-> files[i].Location,
          OrderID             |-> files[i].OrderID,
          OrderStatus         |-> files[i].Status,
          GrossAOV            |-> files[i].SubTotal,
          Brand               |-> files[i].Brands,
          ProductPLU          |-> files[i].ProductPLUs,
          ProductName         |-> files[i].ProductNames,
          ItemPrice           |-> files[i].ItemPrice,
          ItemQuantities      |-> files[i].ItemQuantities ]]

RECURSIVE Flatten(_)
Flatten(ss) == IF ss = <<>> THEN <<>> ELSE Head(ss) \o Flatten(Tail(ss))

\* Lines 241-248: pd.merge(df, clean_df[...], on=['PrimaryKey', 'OrderStatus'],
\* how='left'): a row of df once per row of clean_df with its key pair
\* (TempColumn 'Orders'), or once with a null TempColumn.
MergeOrders(frame, clean_df) ==
    LET matches(r) ==
            SelectSeq(clean_df, LAMBDA c :
                c.PrimaryKey = r.PrimaryKey /\ c.OrderStatus = r.OrderStatus)
        joined(r) ==
            IF matches(r) = <<>>
            THEN << [TempColumn |-> NaN] @@ r >>
            ELSE [k \in 1..Len(matches(r)) |-> [TempColumn |-> <<"O", "r", "d", "e", "r", "s">>] @@ r]
    IN  ResetIndex(Flatten([i \in 1..Len(frame) |-> joined(frame[i])]))

\* A variant of KeepMatched that filters nothing.
KeepAllRows(frame) == frame

\* Line 251.
KeepMatched(frame) == SelectSeq(frame, LAMBDA r : ~IsNull(r.TempColumn))

\* A variant of ToCurrency that divides by 100 twice, as line 256 does.
ToCurrencyTwice(cents) == (cents * Scale) \div (100 * 100)

\* Line 254: ItemPrice / 100, cents to currency.
ToCurrency(cents) == (cents * Scale) \div 100

\* Lines 254-279: the item price in currency, the output columns (which drop
\* CleanedProductPLU and CleanedProductName again), the index, TotalPrice.
PriceItems(frame) ==
    ResetIndex(
        [i \in 1..Len(frame) |->
            [ idx             |-> frame[i].idx,
              PrimaryKey      |-> frame[i].PrimaryKey,
              OrderID         |-> frame[i].OrderID,
              Location        |-> frame[i].Location,
              Brand           |-> frame[i].Brand,
              OrderPlacedDate |-> frame[i].OrderPlacedDate,
              OrderPlacedTime |-> frame[i].OrderPlacedTime,
              OrderStatus     |-> frame[i].OrderStatus,
              GrossAOV        |-> frame[i].GrossAOV,
              ProductPLU      |-> frame[i].ProductPLU,
              ProductName     |-> frame[i].ProductName,
              ItemPrice       |-> ToCurrency(frame[i].ItemPrice),
              ItemQuantities  |-> frame[i].ItemQuantities,
              TotalPrice      |-> ToCurrency(frame[i].ItemPrice) * frame[i].ItemQuantities ]])

RECURSIVE SumSeq(_)
SumSeq(s) == IF s = <<>> THEN 0 ELSE Head(s) + SumSeq(Tail(s))

RowsOf(frame, key) == SelectSeq(frame, LAMBDA r : r.PrimaryKey = key)

SumTotalPrice(frame, key) ==
    LET rows == RowsOf(frame, key)
    IN  SumSeq([i \in 1..Len(rows) |-> rows[i].TotalPrice])

\* first_total_order_amount: series.iloc[0]
first_total_order_amount(frame, key) == RowsOf(frame, key)[1].GrossAOV

\* Lines 290-291: groupby('PrimaryKey') drops the rows with a null key and
\* yields one row per key, in key order.
GroupByPrimaryKey(frame) ==
    LET firsts == RowsAt(frame, {i \in 1..Len(frame) :
                      /\ ~IsNull(frame[i].PrimaryKey)
                      /\ \A j \in 1..(i - 1) : frame[j].PrimaryKey # frame[i].PrimaryKey})
        found  == [i \in 1..Len(firsts) |-> firsts[i].PrimaryKey]
        keys   == StableSort(found, {q \in Positions(found) : StrLess(found[q[1]], found[q[2]])})
    IN  [i \in 1..Len(keys) |->
            [ PrimaryKey |-> keys[i],
              TotalPrice |-> SumTotalPrice(frame, keys[i]),
              GrossAOV   |-> first_total_order_amount(frame, keys[i]) ]]

\* A variant of Check without a tolerance.
CheckExact(row) == row.GrossAOV = row.TotalPrice

\* Lines 294-295.
Check(row) == Abs(row.GrossAOV - row.TotalPrice) < Tolerance

\* Lines 282-298.
Consolidate(frame) == SelectSeq(GroupByPrimaryKey(frame), LAMBDA row : ~Check(row))

\* Lines 305-319.
BalancingRecord(frame, row) ==
    LET matching_row == RowsOf(frame, row.PrimaryKey)[1]
    IN  [ idx             |-> 0,
          PrimaryKey      |-> row.PrimaryKey,
          ProductName     |-> <<"B", "a", "l", "a", "n", "c", "i", "n", "g", " ", "I", "t", "e", "m">>,
          ProductPLU      |-> <<"x", "-", "x", "x", "-", "x", "x", "x", "-", "x">>,
          ItemQuantities  |-> 1,
          ItemPrice       |-> row.GrossAOV - row.TotalPrice,
          TotalPrice      |-> row.GrossAOV - row.TotalPrice,
          OrderID         |-> matching_row.OrderID,
          Location        |-> matching_row.Location,
          Brand           |-> matching_row.Brand,
          OrderPlacedDate |-> matching_row.OrderPlacedDate,
          OrderPlacedTime |-> matching_row.OrderPlacedTime,
          OrderStatus     |-> matching_row.OrderStatus,
          GrossAOV        |-> matching_row.GrossAOV ]

\* Lines 301-321.
NewRecords(frame, consolidated) ==
    [i \in 1..Len(consolidated) |-> BalancingRecord(frame, consolidated[i])]

\* Line 327: sort_values(['OrderPlacedDate', 'OrderPlacedTime', 'PrimaryKey'])
FinalLess(a, b) ==
    \/ a.OrderPlacedDate < b.OrderPlacedDate
    \/ /\ a.OrderPlacedDate = b.OrderPlacedDate
       /\ \/ a.OrderPlacedTime < b.OrderPlacedTime
          \/ /\ a.OrderPlacedTime = b.OrderPlacedTime
             /\ StrLess(a.PrimaryKey, b.PrimaryKey)

\* Lines 324-330.
AppendAndSort(frame, records) ==
    LET all == ResetIndex(frame \o records)
    IN  ResetIndex(StableSort(all, {q \in Positions(all) : FinalLess(all[q[1]], all[q[2]])}))

\* Lines 278-330 on a priced frame: aggregation, check, synthesis, sort.
Reconcile(frame) == AppendAndSort(frame, NewRecords(frame, Consolidate(frame)))

load_deliverect_item_level_detail_data(items, orders) ==
    Reconcile(
        PriceItems(
            KeepMatched(
                MergeOrders(
                    CleanProductNames(process_deliverect_shared_data(StackItems(items))),
                    load_deliverect_order_data(orders)))))

----------------------------------------------------------------------------
(* The input files *)

\* Cents as an amount of currency, in units.
Cur(cents) == cents * (Scale \div 100)

OrderRow(id, loc, pickup, created, status, subtotal, brands) ==
    [ OrderID |-> id, Location |-> loc, PickupTimeUTC |-> pickup,
      CreatedTimeUTC |-> created, Status |-> status, SubTotal |-> subtotal,
      Brands |-> brands, ProductNames |-> <<"T", "a", "c", "o", ",", " ", "C", "o", "l", "a">> ]

ItemRow(id, loc, created, status, subtotal, name, plu, price, qty) ==
    [ OrderID |-> id, Location |-> loc, CreatedTimeUTC |-> created,
      Status |-> status, SubTotal |-> subtotal, Brands |-> <<"B", "i", "r", "d", "i", "e", " ", "B", "i", "r", "d", "i", "e">>,
      ProductNames |-> name, ProductPLUs |-> plu,
      ItemPrice |-> price, ItemQuantities |-> qty ]

\* Rows of 'Orders' files for load_deliverect_order_data run on its own.
OrderRows ==
    { OrderRow(<<"1">>, <<"M", "i", "t", "t", "e">>, 10, 10, <<"D", "E", "L", "I", "V", "E", "R", "E", "D">>,   Cur(1000), NaN),
      OrderRow(<<"1">>, <<"M", "i", "t", "t", "e">>, 10, 10, <<"N", "E", "W">>,         Cur(1001), NaN),
      OrderRow(<<"1">>, <<"M", "i", "t", "t", "e">>, 10, 10, <<"C", "A", "N", "C", "E", "L", "L", "E", "D">>,   Cur(1002), NaN),
      OrderRow(<<"1">>, <<"M", "i", "t", "t", "e">>, 10, 10, <<"C", "A", "N", "C", "E", "L", "E", "D">>,    Cur(1003), NaN),
      OrderRow(<<"1">>, <<"M", "i", "t", "t", "e">>, 10, 10, <<"F", "A", "I", "L", "E", "D">>,      Cur(1004), NaN),
      OrderRow(<<"1">>, <<"M", "i", "t", "t", "e">>, 10, 10, <<"I", "N", "_", "D", "E", "L", "I", "V", "E", "R", "Y">>, Cur(1005), NaN),
      OrderRow(<<"1">>, <<"M", "i", "t", "t", "e">>, 10, 10, <<"D", "U", "P", "L", "I", "C", "A", "T", "E">>,   Cur(1006), NaN),
      OrderRow(<<"1">>, <<"M", "i", "t", "t", "e">>, 23, 23, <<"D", "E", "L", "I", "V", "E", "R", "E", "D">>,   Cur(1007), NaN),
      OrderRow(<<"2">>, <<"M", "i", "t", "t", "e">>, 10, 10, <<"F", "A", "I", "L", "E", "D">>,      Cur(1008), NaN),
      OrderRow(<<"1">>, <<"P", "o", "p", "u", "p">>, 10, 10, <<"N", "E", "W">>,         Cur(1009), NaN),
      OrderRow(NaN,  <<"M", "i", "t", "t", "e">>, 10, 10, <<"D", "E", "L", "I", "V", "E", "R", "E", "D">>,   Cur(1010), NaN) }

Brands ==
    { NaN, <<"B", "i", "r", "d", "i", "e", " ", "B", "i", "r", "d", "i", "e">>, <<"B", "i", "r", "r", "i", "a", " ", "&", " ", "t", "h", "e", " ", "B", "e", "a", "s", "t">>, <<"B", "E", "A", "S", "T">>, <<"B", "e", "a", "s", "t", ",", "B", "i", "r", "d", "i", "e">>,
      <<"B", "i", "r", "d", "i", "e", ",", "B", "e", "a", "s", "t">>, <<"B", "e", "a", ",", "s", "t">> }

Locations == { <<"M", "i", "t", "t", "e">>, <<"B", "e", "a", "s", "t", " ", "K", "ouml", "l", "n">>, <<"P", "o", "p", "u", "p">> }

\* Rows of 'Orders' files that differ in brand and location.
BrandRows ==
    { OrderRow(<<"1">>, loc, 10, 10, <<"D", "E", "L", "I", "V", "E", "R", "E", "D">>, Cur(1000), b) :
        loc \in Locations, b \in Brands }

\* Rows of 'Orders' files for load_deliverect_item_level_detail_data.
ItemOrderRows ==
    { OrderRow(<<"1">>, <<"M", "i", "t", "t", "e">>, 10, 10, <<"D", "E", "L", "I", "V", "E", "R", "E", "D">>, Cur(1000), NaN),
      OrderRow(<<"1">>, <<"M", "i", "t", "t", "e">>, 10, 10, <<"N", "E", "W">>,       Cur(1000), NaN),
      OrderRow(<<"1">>, <<"M", "i", "t", "t", "e">>, 10, 10, <<"C", "A", "N", "C", "E", "L", "L", "E", "D">>, Cur(1000), NaN),
      OrderRow(<<"2">>, <<"M", "i", "t", "t", "e">>, 10, 10, <<"D", "E", "L", "I", "V", "E", "R", "E", "D">>, Cur(800),  NaN) }

\* Rows of 'Order Level Pricing' files.
ItemRows ==
    { ItemRow(<<"1">>, <<"M", "i", "t", "t", "e">>, 10, <<"D", "E", "L", "I", "V", "E", "R", "E", "D">>, Cur(1000),    <<"T", "a", "c", "o">>, <<"T">>, 500, 2),
      ItemRow(<<"1">>, <<"M", "i", "t", "t", "e">>, 10, <<"D", "E", "L", "I", "V", "E", "R", "E", "D">>, Cur(1000),    <<"C", "o", "l", "a">>, <<"C">>, 300, 1),
      ItemRow(<<"1">>, <<"M", "i", "t", "t", "e">>, 10, <<"N", "E", "W">>,       Cur(1000),    <<"T", "a", "c", "o">>, <<"T">>, 500, 2),
      ItemRow(<<"1">>, <<"M", "i", "t", "t", "e">>, 9,  <<"D", "E", "L", "I", "V", "E", "R", "E", "D">>, Cur(800),     <<"C", "o", "l", "a">>, <<"C">>, 300, 1),
      ItemRow(<<"1">>, <<"M", "i", "t", "t", "e">>, 10, <<"C", "A", "N", "C", "E", "L", "L", "E", "D">>, Cur(1000),    <<"T", "a", "c", "o">>, <<"T">>, 500, 2),
      ItemRow(<<"2">>, <<"M", "i", "t", "t", "e">>, 10, <<"D", "E", "L", "I", "V", "E", "R", "E", "D">>, Cur(800),     <<"T", "a", "c", "o">>, <<"T">>, 500, 1),
      ItemRow(<<"2">>, <<"M", "i", "t", "t", "e">>, 9,  <<"D", "E", "L", "I", "V", "E", "R", "E", "D">>, Cur(800) + 5, <<"C", "o", "l", "a">>, <<"C">>, 800, 1) }

\* Rows of 'Orders' and of 'Order Level Pricing' files of one order, created
\* and picked up at 22:00 or 23:00 UTC, either side of midnight in Berlin.
KeyOrderRows ==
    { OrderRow(<<"1">>, <<"M", "i", "t", "t", "e">>, pickup, created, <<"D", "E", "L", "I", "V", "E", "R", "E", "D">>, Cur(1000), NaN) :
        pickup \in {22, 23}, created \in {22, 23} }

KeyItemRows ==
    { ItemRow(<<"1">>, <<"M", "i", "t", "t", "e">>, created, <<"D", "E", "L", "I", "V", "E", "R", "E", "D">>, Cur(1000), <<"T", "a", "c", "o">>, <<"T">>, 500, 2) :
        created \in {22, 23} }

MaxOrderFiles == 3
MaxKeyOrderFiles == 2
MaxKeyItemFiles == 2
MaxBrandFiles == 2
MaxItemOrderFiles == 2
MaxItemFiles == 2

SeqsUpTo(S, n) == UNION {[1..k -> S] : k \in 0..n}

----------------------------------------------------------------------------
(* The state machine *)

InitFrames ==
    /\ orders_df = <<>>
    /\ df = <<>>
    /\ consolidated_df = <<>>
    /\ new_records = <<>>

\* load_deliverect_item_level_detail_data()
Init ==
    /\ pc = "read_items"
    /\ caller = "items"
    /\ order_files \in SeqsUpTo(ItemOrderRows, MaxItemOrderFiles)
    /\ item_files \in SeqsUpTo(ItemRows, MaxItemFiles)
    /\ InitFrames

\* load_deliverect_order_data()
InitOrders ==
    /\ pc = "read_orders"
    /\ caller = "orders"
    /\ order_files \in SeqsUpTo(OrderRows, MaxOrderFiles)
    /\ item_files = <<>>
    /\ InitFrames

InitBrands ==
    /\ pc = "read_orders"
    /\ caller = "orders"
    /\ order_files \in SeqsUpTo(BrandRows, MaxBrandFiles)
    /\ item_files = <<>>
    /\ InitFrames

\* load_deliverect_item_level_detail_data(), over files of one order
InitKeys ==
    /\ pc = "read_items"
    /\ caller = "items"
    /\ order_files \in SeqsUpTo(KeyOrderRows, MaxKeyOrderFiles)
    /\ item_files \in SeqsUpTo(KeyItemRows, MaxKeyItemFiles)
    /\ InitFrames

\* Lines 198-232
ReadItemFiles ==
    /\ pc = "read_items"
    /\ df' = StackItems(item_files)
    /\ pc' = "items_shared"
    /\ UNCHANGED <<caller, order_files, item_files, orders_df, consolidated_df, new_records>>

\* Lines 235-236
ItemSharedData ==
    /\ pc = "items_shared"
    /\ df' = CleanProductNames(process_deliverect_shared_data(df))
    /\ pc' = "read_orders"
    /\ UNCHANGED <<caller, order_files, item_files, orders_df, consolidated_df, new_records>>

\* Lines 102-139
ReadOrderFiles ==
    /\ pc = "read_orders"
    /\ orders_df' = StackOrders(order_files)
    /\ pc' = "orders_shared"
    /\ UNCHANGED <<caller, order_files, item_files, df, consolidated_df, new_records>>

\* Lines 142-143
OrderSharedData ==
    /\ pc = "orders_shared"
    /\ orders_df' = CleanProductNames(process_deliverect_shared_data(orders_df))
    /\ pc' = "remove_duplicates"
    /\ UNCHANGED <<caller, order_files, item_files, df, consolidated_df, new_records>>

\* Line 144
RemoveDuplicates ==
    /\ pc = "remove_duplicates"
    /\ orders_df' = process_deliverect_remove_duplicates(orders_df)
    /\ pc' = "orders_finish"
    /\ UNCHANGED <<caller, order_files, item_files, df, consolidated_df, new_records>>

\* Lines 146-185; the function returns to line 241 or ends the run.
OrderFinish ==
    /\ pc = "orders_finish"
    /\ orders_df' = FinishOrders(orders_df)
    /\ pc' = IF caller = "items" THEN "merge" ELSE "done"
    /\ UNCHANGED <<caller, order_files, item_files, df, consolidated_df, new_records>>

\* Lines 241-251
MergeFilter ==
    /\ pc = "merge"
    /\ df' = KeepMatched(MergeOrders(df, orders_df))
    /\ pc' = "price"
    /\ UNCHANGED <<caller, order_files, item_files, orders_df, consolidated_df, new_records>>

\* Lines 254-279
ItemPrices ==
    /\ pc = "price"
    /\ df' = PriceItems(df)
    /\ pc' = "consolidate"
    /\ UNCHANGED <<caller, order_files, item_files, orders_df, consolidated_df, new_records>>

\* Lines 282-298
ConsolidateStep ==
    /\ pc = "consolidate"
    /\ consolidated_df' = Consolidate(df)
    /\ pc' = "synthesize"
    /\ UNCHANGED <<caller, order_files, item_files, orders_df, df, new_records>>

\* Lines 301-321
Synthesize ==
    /\ pc = "synthesize"
    /\ new_records' = NewRecords(df, consolidated_df)
    /\ pc' = "append_sort"
    /\ UNCHANGED <<caller, order_files, item_files, orders_df, df, consolidated_df>>

\* Lines 324-333
AppendSort ==
    /\ pc = "append_sort"
    /\ df' = AppendAndSort(df, new_records)
    /\ pc' = "done"
    /\ UNCHANGED <<caller, order_files, item_files, orders_df, consolidated_df, new_records>>

NextOrders ==
    \/ ReadOrderFiles
    \/ OrderSharedData
    \/ RemoveDuplicates
    \/ OrderFinish

Next ==
    \/ ReadItemFiles
    \/ ItemSharedData
    \/ ReadOrderFiles
    \/ OrderSharedData
    \/ RemoveDuplicates
    \/ OrderFinish
    \/ MergeFilter
    \/ ItemPrices
    \/ ConsolidateStep
    \/ Synthesize
    \/ AppendSort

\* The run of load_deliverect_item_level_detail_data (line 336).
Spec == Init /\ [][Next]_vars

\* The same run, over files of one order around midnight.
SpecKeys == InitKeys /\ [][Next]_vars

\* The run of load_deliverect_order_data (line 187).
SpecOrders == InitOrders /\ [][NextOrders]_vars

\* The same run, over files that differ in brand and location.
SpecBrands == InitBrands /\ [][NextOrders]_vars

----------------------------------------------------------------------------
(* Properties *)

\* The frames after process_deliverect_shared_data and
\* clean_deliverect_product_name, as functions of the input files.
SharedOrders == CleanProductNames(process_deliverect_shared_data(StackOrders(order_files)))
SharedItems == CleanProductNames(process_deliverect_shared_data(StackItems(item_files)))

RowWithIdx(frame, n) == CHOOSE r \in Range(frame) : r.idx = n

\* orders_df holds the output of process_deliverect_remove_duplicates.
Deduplicated == pc \in {"orders_finish", "merge", "price", "consolidate",
                        "synthesize", "append_sort", "done"}

\* df holds item rows that passed the filter stage.
Filtered == pc \in {"price", "consolidate", "synthesize", "append_sort", "done"}

ItemsDone == caller = "items" /\ pc = "done"

\* The statuses, after normalization, of the order rows with the key.
GroupStatuses(shared, key) ==
    {r.OrderStatus : r \in {x \in Range(shared) : x.PrimaryKey = key}}

\* The rank of a normalized status: its place in the precedence table, and
\* the place after the last one for a status the table does not list.
Rank(st) == IF st \in Range(custom_order) THEN CategoryCode(st) - 1 ELSE Len(custom_order)

\* The sum of TotalPrice over the rows of a key, counted row by row.
RECURSIVE TotalOf(_, _)
TotalOf(frame, key) ==
    IF frame = <<>> THEN 0
    ELSE (IF Head(frame).PrimaryKey = key THEN Head(frame).TotalPrice ELSE 0)
         + TotalOf(Tail(frame), key)

IsBalancingItem(r) == r.ProductName = <<"B", "a", "l", "a", "n", "c", "i", "n", "g", " ", "I", "t", "e", "m">>

\* C1: in the output of load_deliverect_item_level_detail_data, the sum of
\* TotalPrice over all rows of a PrimaryKey (any balancing row included)
\* differs by less than 0.001 from the GrossAOV of the order, which every row
\* of the key carries.
C1_Conservation ==
    ItemsDone =>
        \A r \in Range(df) :
            ~IsNull(r.PrimaryKey) =>
                Abs(TotalOf(df, r.PrimaryKey) - r.GrossAOV) < Scale \div 1000

\* C2: the output of process_deliverect_remove_duplicates, and so the output
\* of load_deliverect_order_data, holds no two records with the same PrimaryKey.
C2_KeyUniqueness ==
    Deduplicated =>
        \A i, j \in 1..Len(orders_df) :
            orders_df[i].PrimaryKey = orders_df[j].PrimaryKey => i = j

\* C2 witness: two order rows with one PrimaryKey went in, one record came out.
C2_Witness ==
    /\ pc = "done"
    /\ Len(orders_df) = 1
    /\ \E i, j \in 1..Len(SharedOrders) :
          i # j /\ SharedOrders[i].PrimaryKey = SharedOrders[j].PrimaryKey
                /\ SharedOrders[i].PrimaryKey = orders_df[1].PrimaryKey

\* C3: the record that process_deliverect_remove_duplicates keeps for a
\* PrimaryKey has the lowest precedence rank among the order rows with that
\* key, a status outside the table ranking after every listed one; so
\* 'Delivered' is kept over 'Cancelled' and over 'New'.
C3_PrecedenceCorrectness ==
    pc = "orders_finish" =>
        LET shared == SharedOrders
        IN  \A k \in Range(orders_df) :
                LET kept == RowWithIdx(shared, k.idx)
                    statuses == GroupStatuses(shared, k.PrimaryKey)
                IN  /\ kept.PrimaryKey = k.PrimaryKey
                    /\ \A st \in statuses : Rank(kept.OrderStatus) <= Rank(st)
                    /\ (<<"D", "e", "l", "i", "v", "e", "r", "e", "d">> \in statuses /\ statuses \cap {<<"C", "a", "n", "c", "e", "l", "l", "e", "d">>, <<"N", "e", "w">>} # {})
                          => kept.OrderStatus = <<"D", "e", "l", "i", "v", "e", "r", "e", "d">>

\* C3 witness: a key with a 'Cancelled' row stacked before a 'Delivered' row,
\* and the 'Delivered' row kept.
C3_Witness ==
    /\ pc = "orders_finish"
    /\ \E k \in Range(orders_df) :
          /\ k.OrderStatus = <<"D", "e", "l", "i", "v", "e", "r", "e", "d">>
          /\ \E r \in Range(SharedOrders) :
                /\ r.PrimaryKey = k.PrimaryKey
                /\ r.OrderStatus = <<"C", "a", "n", "c", "e", "l", "l", "e", "d">>
                /\ r.idx < k.idx

\* C4: every row in the output of load_deliverect_item_level_detail_data has
\* the (PrimaryKey, OrderStatus) pair of a record of the deduplicated order
\* set; an item row with another pair is dropped by the filter stage, also
\* when rows of the same PrimaryKey with the surviving status stay.
C4_SemiJoin ==
    Filtered =>
        \A r \in Range(df) :
            \E c \in Range(orders_df) :
                c.PrimaryKey = r.PrimaryKey /\ c.OrderStatus = r.OrderStatus

\* C4 witness: an item row of a surviving key was dropped for its status.
C4_Witness ==
    /\ ItemsDone
    /\ \E r \in Range(df) : \E x \in Range(SharedItems) :
          x.PrimaryKey = r.PrimaryKey /\ x.OrderStatus # r.OrderStatus

\* The scenario of C5: the item rows {price 500, quantity 2} and
\* {price 300, quantity 1} of one order with GrossAOV 10.00.
ScenarioItems ==
    { ItemRow(<<"1">>, <<"M", "i", "t", "t", "e">>, 10, <<"D", "E", "L", "I", "V", "E", "R", "E", "D">>, Cur(1000), <<"T", "a", "c", "o">>, <<"T">>, 500, 2),
      ItemRow(<<"1">>, <<"M", "i", "t", "t", "e">>, 10, <<"D", "E", "L", "I", "V", "E", "R", "E", "D">>, Cur(1000), <<"C", "o", "l", "a">>, <<"C">>, 300, 1) }

\* The scenario ran up to the synthesis of the balancing records, and both
\* item rows passed the filter stage.
ScenarioReconciled ==
    /\ pc \in {"append_sort", "done"}
    /\ caller = "items"
    /\ Len(item_files) = 2
    /\ Range(item_files) = ScenarioItems
    /\ Cardinality({r \in Range(df) : ~IsBalancingItem(r)}) = 2

\* C5 as stated: in the scenario the TotalPrice sum is 8.00 and one
\* balancing record with ItemPrice and TotalPrice 2.00 is appended.
C5_ScenarioAsStated ==
    ScenarioReconciled =>
        /\ Len(consolidated_df) = 1
        /\ consolidated_df[1].TotalPrice = Cur(800)
        /\ Len(new_records) = 1
        /\ new_records[1].ItemPrice = Cur(200)
        /\ new_records[1].TotalPrice = Cur(200)

\* C5 amended: in the scenario the TotalPrice sum is 5.00 * 2 + 3.00 * 1 =
\* 13.00, the imbalance against GrossAOV 10.00 is -3.00, and exactly one
\* balancing record is appended, with ItemPrice and TotalPrice -3.00.
C5_Scenario ==
    ScenarioReconciled =>
        /\ Len(consolidated_df) = 1
        /\ consolidated_df[1].TotalPrice = Cur(1300)
        /\ consolidated_df[1].GrossAOV = Cur(1000)
        /\ Len(new_records) = 1
        /\ new_records[1].ItemPrice = -Cur(300)
        /\ new_records[1].TotalPrice = -Cur(300)
        /\ pc = "done" => Cardinality({i \in 1..Len(df) : IsBalancingItem(df[i])}) = 1

\* C5 witness: the scenario ran to the end.
C5_Witness == ScenarioReconciled /\ pc = "done" /\ Len(df) = 3

\* The order row a row of orders_df was made from, while orders_df still
\* carries the index labels of the stacked frame.
RawOrder(r) == order_files[r.idx + 1]

SharedDataDone == pc \in {"remove_duplicates", "orders_finish"}

\* C6 as stated: after process_deliverect_shared_data every Brand is 'Birria'
\* or 'Birdie', and it is 'Birria' exactly if the input brand (for a null
\* brand, the location) contains 'beast', case-insensitively.
C6_BrandByInputBrand ==
    SharedDataDone =>
        \A r \in Range(orders_df) :
            /\ r.Brand \in {<<"B", "i", "r", "r", "i", "a">>, <<"B", "i", "r", "d", "i", "e">>}
            /\ r.Brand = <<"B", "i", "r", "r", "i", "a">> <=>
                  ContainsNoCase(IF IsNull(RawOrder(r).Brands)
                                 THEN RawOrder(r).Location
                                 ELSE RawOrder(r).Brands, <<"b", "e", "a", "s", "t">>)

\* C6 amended: after process_deliverect_shared_data every Brand is 'Birria'
\* or 'Birdie', and it is 'Birria' exactly if the text of the input brand
\* before its first comma (for a null brand, the location) contains 'beast',
\* case-insensitively.
C6_BrandCollapse ==
    SharedDataDone =>
        \A r \in Range(orders_df) :
            /\ r.Brand \in {<<"B", "i", "r", "r", "i", "a">>, <<"B", "i", "r", "d", "i", "e">>}
            /\ r.Brand = <<"B", "i", "r", "r", "i", "a">> <=>
                  ContainsNoCase(IF IsNull(RawOrder(r).Brands)
                                 THEN RawOrder(r).Location
                                 ELSE BeforeFirstComma(RawOrder(r).Brands), <<"b", "e", "a", "s", "t">>)

\* C6 witness: brands with 'beast' before and after a comma, an upper-case
\* one and a null one at a 'beast' location have been collapsed.
C6_Witness ==
    /\ SharedDataDone
    /\ \E r \in Range(orders_df) :
          RawOrder(r).Brands = <<"B", "i", "r", "d", "i", "e", ",", "B", "e", "a", "s", "t">> /\ r.Brand = <<"B", "i", "r", "d", "i", "e">>
    /\ \E r \in Range(orders_df) :
          \/ RawOrder(r).Brands = <<"B", "E", "A", "S", "T">> /\ r.Brand = <<"B", "i", "r", "r", "i", "a">>
          \/ IsNull(RawOrder(r).Brands) /\ RawOrder(r).Location = <<"B", "e", "a", "s", "t", " ", "K", "ouml", "l", "n">>
                /\ r.Brand = <<"B", "i", "r", "r", "i", "a">>

\* Every row of a key carries a GrossAOV within 0.001 of the key's TotalPrice sum.
Balanced(frame) ==
    \A r \in Range(frame) :
        ~IsNull(r.PrimaryKey) =>
            Abs(TotalOf(frame, r.PrimaryKey) - r.GrossAOV) < Scale \div 1000

StackingOrders(files) ==
    {[i \in 1..Len(files) |-> files[p[i]]] : p \in Permutations(1..Len(files))}

\* C8: for every stacking order of the same input rows
\* load_deliverect_item_level_detail_data returns the same sequence of rows.
C8_InputOrderIndependence ==
    ItemsDone =>
        \A items \in StackingOrders(item_files) :
            \A orders \in StackingOrders(order_files) :
                load_deliverect_item_level_detail_data(items, orders) = df

\* C9: every item row that passed the filter stage carries the GrossAOV of
\* the retained order record of its PrimaryKey, so the rows of a key agree on
\* GrossAOV and the GrossAOV taken in the aggregation is the order record's.
C9_AuthoritativeGrossAOV ==
    Filtered =>
        \A r \in Range(df) :
            \A c \in Range(orders_df) :
                c.PrimaryKey = r.PrimaryKey => r.GrossAOV = c.GrossAOV

\* C10 as stated: of two order rows of one PrimaryKey with the statuses
\* 'Cancelled' and 'Failed', process_deliverect_remove_duplicates keeps the
\* 'Cancelled' row.
C10_CancelledOverFailed ==
    pc = "orders_finish" =>
        LET shared == SharedOrders
        IN  \A k \in Range(orders_df) :
                GroupStatuses(shared, k.PrimaryKey) = {<<"C", "a", "n", "c", "e", "l", "l", "e", "d">>, <<"F", "a", "i", "l", "e", "d">>}
                    => RowWithIdx(shared, k.idx).OrderStatus = <<"C", "a", "n", "c", "e", "l", "l", "e", "d">>

\* C10 amended: the precedence table ranks 'Delivered' above 'Canceled' and
\* 'Canceled' above 'Failed', so of two order rows of one PrimaryKey with the
\* statuses 'Canceled' and 'Failed' process_deliverect_remove_duplicates
\* keeps the 'Canceled' row; 'Cancelled' is not in the table, and of a
\* 'Cancelled' and a 'Failed' row the 'Failed' row is kept.
C10_CanceledOverFailed ==
    pc = "orders_finish" =>
        LET shared == SharedOrders
        IN  \A k \in Range(orders_df) :
                LET kept == RowWithIdx(shared, k.idx)
                    statuses == GroupStatuses(shared, k.PrimaryKey)
                IN  /\ statuses = {<<"C", "a", "n", "c", "e", "l", "e", "d">>, <<"F", "a", "i", "l", "e", "d">>} => kept.OrderStatus = <<"C", "a", "n", "c", "e", "l", "e", "d">>
                    /\ statuses = {<<"D", "e", "l", "i", "v", "e", "r", "e", "d">>, <<"C", "a", "n", "c", "e", "l", "e", "d">>} => kept.OrderStatus = <<"D", "e", "l", "i", "v", "e", "r", "e", "d">>
                    /\ statuses = {<<"C", "a", "n", "c", "e", "l", "l", "e", "d">>, <<"F", "a", "i", "l", "e", "d">>} => kept.OrderStatus = <<"F", "a", "i", "l", "e", "d">>

\* C10 witness: a 'Failed' row stacked before a 'Canceled' row of the same
\* key, and the 'Canceled' row kept.
C10_Witness ==
    /\ pc = "orders_finish"
    /\ \E k \in Range(orders_df) :
          /\ GroupStatuses(SharedOrders, k.PrimaryKey) = {<<"C", "a", "n", "c", "e", "l", "e", "d">>, <<"F", "a", "i", "l", "e", "d">>}
          /\ k.OrderStatus = <<"C", "a", "n", "c", "e", "l", "e", "d">>
          /\ \E r \in Range(SharedOrders) :
                r.PrimaryKey = k.PrimaryKey /\ r.OrderStatus = <<"F", "a", "i", "l", "e", "d">> /\ r.idx < k.idx

\* The sum of TotalPrice over the item rows of a key, the balancing rows
\* left out.
RECURSIVE ItemTotalOf(_, _)
ItemTotalOf(frame, key) ==
    IF frame = <<>> THEN 0
    ELSE (IF Head(frame).PrimaryKey = key /\ ~IsBalancingItem(Head(frame))
          THEN Head(frame).TotalPrice ELSE 0)
         + ItemTotalOf(Tail(frame), key)

BalancingRowsOf(frame, key) ==
    {i \in 1..Len(frame) : frame[i].PrimaryKey = key /\ IsBalancingItem(frame[i])}

\* C11: in the output of load_deliverect_item_level_detail_data a PrimaryKey
\* with a surviving item row has exactly one 'Balancing Item' row, of
\* quantity 1 and ItemPrice = TotalPrice = GrossAOV minus the sum of its
\* items' TotalPrice, if that difference is not below 0.001 in absolute
\* value, and none otherwise, GrossAOV being the one every item row of the
\* key carries; a key without surviving item rows has none.
C11_BalancingRecord ==
    ItemsDone =>
        /\ \A r \in Range(df) :
              (~IsBalancingItem(r) /\ ~IsNull(r.PrimaryKey)) =>
                  LET diff == r.GrossAOV - ItemTotalOf(df, r.PrimaryKey)
                      bal  == BalancingRowsOf(df, r.PrimaryKey)
                  IN  IF Abs(diff) < Scale \div 1000
                      THEN bal = {}
                      ELSE /\ Cardinality(bal) = 1
                           /\ \A i \in bal :
                                 /\ df[i].ItemQuantities = 1
                                 /\ df[i].ItemPrice = diff
                                 /\ df[i].TotalPrice = diff
        /\ \A b \in Range(df) :
              IsBalancingItem(b) =>
                  \E r \in Range(df) : ~IsBalancingItem(r) /\ r.PrimaryKey = b.PrimaryKey

\* C12: the order record that deduplication keeps for a PrimaryKey keeps the
\* normalized status of the order row it was selected from, and every item
\* row with the PrimaryKey and normalized status of that order row is in the
\* output of the filter stage, also for a status outside the precedence table.
C12_StatusPreserved ==
    Filtered =>
        LET shared == SharedOrders
            kept   == process_deliverect_remove_duplicates(shared)
            items  == SharedItems
        IN  \A k \in Range(kept) :
                LET selected == RowWithIdx(shared, k.idx)
                IN  /\ k.OrderStatus = selected.OrderStatus
                    /\ \A x \in Range(items) :
                          ( /\ x.PrimaryKey = selected.PrimaryKey
                            /\ x.OrderStatus = selected.OrderStatus )
                          => \E r \in Range(df) :
                                /\ r.PrimaryKey = x.PrimaryKey
                                /\ r.OrderStatus = x.OrderStatus
                                /\ r.ProductName = x.ProductName
                                /\ r.ProductPLU = x.ProductPLU
                                /\ r.ItemQuantities = x.ItemQuantities

\* The item row a row of df was made from, while df still carries the index
\* labels of the stacked frame.
RawItem(r) == item_files[r.idx + 1]

\* C13: an order-level row and an item-level row exported for the same order
\* (same OrderID, Location and CreatedTimeUTC) get the same PrimaryKey from
\* process_deliverect_shared_data.
C13_SameKeyAcrossFeeds ==
    pc = "remove_duplicates" =>
        \A o \in Range(orders_df) : \A i \in Range(df) :
            ( /\ RawOrder(o).OrderID = RawItem(i).OrderID
              /\ RawOrder(o).Location = RawItem(i).Location
              /\ RawOrder(o).CreatedTimeUTC = RawItem(i).CreatedTimeUTC )
            => o.PrimaryKey = i.PrimaryKey

====
